---- MODULE Spec2Model ----
(***************************************************************************)
(* Model of the tool-chain planning and execution engine of MCPClient      *)
(* (src/client.py): resolve_tool_args, plan_tool_usage, execute_tool_chain,*)
(* generate_final_response, process_query and chat_loop.                   *)
(*                                                                         *)
(* Text is modelled as a sequence of symbols.  In argument values a symbol *)
(* is one of the characters "{", "}", " " (space), "\t" (tab), or a        *)
(* non-empty run of characters that are none of these (such as a tool      *)
(* name).  Python dicts are functions with a finite domain.                *)
(***************************************************************************)
EXTENDS Integers, Sequences, FiniteSets, TLC

VARIABLES
    tool_plan,     \* execute_tool_chain: the caller's plan object (list of step dicts)
    orig_plan,     \* history: the plan as it was when execute_tool_chain was entered
    idx,           \* execute_tool_chain: position of the for loop (1-based)
    tool_outputs,  \* execute_tool_chain: local dict tool name -> latest text
    messages,      \* execute_tool_chain: local transcript list
    calls,         \* session: invocations issued through session.call_tool, in order
    returns,       \* session: texts returned by the invocations, in order
    synth_calls,   \* completion service: transcripts received by generate_final_response
    pc,            \* control position of process_query from line 244 on
    exc,           \* the exception that left the coroutine, "" when none
    r_pc,          \* resolve_tool_args harness: "ready" or "done"
    r_name,        \* resolve_tool_args: tool_name
    r_args,        \* resolve_tool_args: the tool_args dict object
    r_args0,       \* history: tool_args as passed
    r_outs,        \* resolve_tool_args: tool_outputs
    p_pc,          \* plan_tool_usage from line 169 on: "response", "returned"
    content,       \* plan_tool_usage: the model's response text
    p_result,      \* plan_tool_usage: the returned plan
    p_exc,         \* plan_tool_usage: exception that escaped, "" when none
    q_pc,          \* chat_loop / process_query position
    query,         \* chat_loop: the line read
    q_services,    \* whether planning, tools and synthesis would all succeed
    q_final,       \* process_query: returned final answer, NoAnswer when none
    terminal       \* chat_loop: lines printed to the terminal

chainVars == <<tool_plan, orig_plan, idx, tool_outputs, messages, calls, returns,
               synth_calls, pc, exc>>
resolveVars == <<r_pc, r_name, r_args, r_args0, r_outs>>
planVars == <<p_pc, content, p_result, p_exc>>
queryVars == <<q_pc, query, q_services, q_final, terminal>>
vars == <<chainVars, resolveVars, planVars, queryVars>>

(***************************************************************************)
(* Bounds of the model.                                                    *)
(***************************************************************************)
MaxSteps == 3
MaxValLen == 6
MaxContent == 5
MaxTurns == 3
MaxQueryLen == 3

(***************************************************************************)
(* Python str helpers.                                                     *)
(***************************************************************************)
StartsWith(s, p) ==
    /\ Len(s) >= Len(p)
    /\ SubSeq(s, 1, Len(p)) = p

EndsWith(s, p) ==
    /\ Len(s) >= Len(p)
    /\ SubSeq(s, Len(s) - Len(p) + 1, Len(s)) = p

RECURSIVE LStrip(_, _)
LStrip(s, chars) ==
    IF s # <<>> /\ Head(s) \in chars THEN LStrip(Tail(s), chars) ELSE s

RECURSIVE RStrip(_, _)
RStrip(s, chars) ==
    IF s # <<>> /\ s[Len(s)] \in chars
    THEN RStrip(SubSeq(s, 1, Len(s) - 1), chars)
    ELSE s

\* str.strip(chars): removes every leading and trailing character in chars
Strip(s, chars) == RStrip(LStrip(s, chars), chars)

\* mutant of StripChars: spaces inside the braces are not removed
StripCharsBracesOnly == {"{", "}"}

\* the characters of the argument "{} " of val.strip
StripChars == {"{", "}", " "}

(***************************************************************************)
(* Argument values: a str, or a value of another JSON type.                *)
(***************************************************************************)
StrVal(s) == [t |-> "str", v |-> s]
NumVal(s) == [t |-> "num", v |-> s]
IsStr(val) == val.t = "str"

EmptyDict == [k \in {} |-> <<>>]

AnalyzeTool == <<"analyze_sentiment">>
EmailTool == <<"send_email_with_attachment">>
MdFilename == <<"q_20260101_000000.md">>
MdPath == <<"./sentiment_reports/q_20260101_000000.md">>

(***************************************************************************)
(* resolve_tool_args: the contents of the tool_args dict when it returns.  *)
(***************************************************************************)
ResolveVal(val, outs) ==
    IF IsStr(val) /\ StartsWith(val.v, <<"{", "{">>) /\ EndsWith(val.v, <<"}", "}">>)
    THEN LET ref_key == Strip(val.v, StripChars)
         IN  IF ref_key \in DOMAIN outs THEN StrVal(outs[ref_key]) ELSE val
    ELSE val

InjectFilename(tool_name, args, md_filename) ==
    IF tool_name = AnalyzeTool /\ "filename" \notin DOMAIN args
    THEN ("filename" :> StrVal(md_filename)) @@ args
    ELSE args

InjectAttachment(tool_name, args, md_path) ==
    IF tool_name = EmailTool /\ "attachment_path" \notin DOMAIN args
    THEN ("attachment_path" :> StrVal(md_path)) @@ args
    ELSE args

ResolveToolArgs(tool_name, tool_args, outs, md_filename, md_path) ==
    LET resolved == [key \in DOMAIN tool_args |-> ResolveVal(tool_args[key], outs)]
    IN  InjectAttachment(tool_name,
                         InjectFilename(tool_name, resolved, md_filename),
                         md_path)

(***************************************************************************)
(* execute_tool_chain and the rest of process_query after it.              *)
(***************************************************************************)
SearchTool == <<"search_google_news">>
Query == <<"q [md_filename=..] [md_path=..]">>
Texts == {<<"news">>, <<"report">>}

Placeholder(token) == <<"{", "{">> \o token \o <<"}", "}">>

\* the plan steps the plans passed to execute_tool_chain are made of
StepSet ==
    { [tool |-> SearchTool, arguments |-> [keyword |-> StrVal(<<"k">>)]],
      [tool |-> SearchTool, arguments |-> [keyword |-> StrVal(Placeholder(SearchTool))]],
      [tool |-> SearchTool, arguments |-> EmptyDict],
      [tool |-> AnalyzeTool, arguments |-> [text |-> StrVal(Placeholder(SearchTool))]],
      [tool |-> AnalyzeTool,
       arguments |-> [text |-> StrVal(Placeholder(<<" ">> \o SearchTool \o <<" ">>)),
                      filename |-> StrVal(<<"mine.md">>)]],
      [tool |-> AnalyzeTool, arguments |-> [text |-> StrVal(Placeholder(EmailTool))]],
      [tool |-> EmailTool,
       arguments |-> [to |-> StrVal(<<"a@b.c">>), body |-> StrVal(Placeholder(AnalyzeTool))]],
      [tool |-> EmailTool,
       arguments |-> [attachment_path |-> StrVal(Placeholder(AnalyzeTool)),
                      retries |-> NumVal(<<"5">>)]],
      [name |-> SearchTool, arguments |-> [keyword |-> StrVal(<<"k">>)]],
      [name |-> AnalyzeTool, arguments |-> [text |-> StrVal(Placeholder(SearchTool))]] }

PlanSet == UNION { [1..n -> StepSet] : n \in 0..MaxSteps }

UserMessage(q) == [role |-> "user", content |-> q]

\* mutant of ToolMessage: the call identifier is left out
ToolMessageNoId(tool_name, text) == [role |-> "tool", content |-> text]

ToolMessage(tool_name, text) ==
    [role |-> "tool", tool_call_id |-> tool_name, content |-> text]

\* step["tool"] and step["arguments"] raise KeyError when the key is absent
StepKeysPresent(step) ==
    /\ "tool" \in DOMAIN step
    /\ "arguments" \in DOMAIN step

\* mutant of PlanAfterResolve: the resolver works on a copy that is thrown away
PlanAfterResolveOnCopy(plan, i, resolved) == plan

\* resolve_tool_args assigns into the dict object that is step["arguments"]
PlanAfterResolve(plan, i, resolved) ==
    [plan EXCEPT ![i] = [@ EXCEPT !["arguments"] = resolved]]

\* mutant of StoreOutput: an entry already present is kept
StoreOutputKeepFirst(outs, tool_name, text) == outs @@ (tool_name :> text)

\* tool_outputs[tool_name] = text
StoreOutput(outs, tool_name, text) == (tool_name :> text) @@ outs

\* mutant of NextIndex: the loop skips a step
NextIndexSkipping(i) == i + 2

\* the for loop moves to the next step of the plan
NextIndex(i) == i + 1

ChainOff ==
    /\ tool_plan = <<>>
    /\ orig_plan = <<>>
    /\ idx = 0
    /\ tool_outputs = EmptyDict
    /\ messages = <<>>
    /\ calls = <<>>
    /\ returns = <<>>
    /\ synth_calls = <<>>
    /\ pc = "off"
    /\ exc = ""

ResolveOff ==
    /\ r_pc = "off"
    /\ r_name = <<>>
    /\ r_args = EmptyDict
    /\ r_args0 = EmptyDict
    /\ r_outs = EmptyDict

\* p_result before plan_tool_usage has returned
NoPlan == [kind |-> "none", value |-> <<>>]

PlanOff ==
    /\ p_pc = "off"
    /\ content = <<>>
    /\ p_result = NoPlan
    /\ p_exc = ""

NoAnswer == <<"<none>">>

QueryOff ==
    /\ q_pc = "off"
    /\ query = <<>>
    /\ q_services = FALSE
    /\ q_final = NoAnswer
    /\ terminal = <<>>

\* execute_tool_chain entered with a plan; lines 188-189 have run
Init ==
    /\ tool_plan \in PlanSet
    /\ orig_plan = tool_plan
    /\ idx = 1
    /\ tool_outputs = EmptyDict
    /\ messages = <<UserMessage(Query)>>
    /\ calls = <<>>
    /\ returns = <<>>
    /\ synth_calls = <<>>
    /\ pc = "loop"
    /\ exc = ""
    /\ ResolveOff
    /\ PlanOff
    /\ QueryOff

\* lines 191-201: read the step, resolve its arguments, issue the invocation
StepCall ==
    /\ pc = "loop"
    /\ idx <= Len(tool_plan)
    /\ LET step == tool_plan[idx]
       IN  IF ~StepKeysPresent(step)
           THEN /\ pc' = "raised"
                /\ exc' = "KeyError"
                /\ UNCHANGED <<tool_plan, calls>>
           ELSE LET tool_name == step["tool"]
                    resolved == ResolveToolArgs(tool_name, step["arguments"],
                                                tool_outputs, MdFilename, MdPath)
                    plan2 == PlanAfterResolve(tool_plan, idx, resolved)
                IN  /\ tool_plan' = plan2
                    /\ calls' = Append(calls, [tool |-> tool_name,
                                               arguments |-> plan2[idx]["arguments"]])
                    /\ pc' = "called"
                    /\ exc' = exc
    /\ UNCHANGED <<orig_plan, idx, tool_outputs, messages, returns, synth_calls>>
    /\ UNCHANGED <<resolveVars, planVars, queryVars>>

\* lines 201-213: the invocation returns; store the output, append the message
CallReturn ==
    /\ pc = "called"
    /\ \E text \in Texts :
          LET tool_name == calls[Len(calls)].tool
          IN  /\ returns' = Append(returns, text)
              /\ tool_outputs' = StoreOutput(tool_outputs, tool_name, text)
              /\ messages' = Append(messages, ToolMessage(tool_name, text))
    /\ idx' = NextIndex(idx)
    /\ pc' = "loop"
    /\ UNCHANGED <<tool_plan, orig_plan, calls, synth_calls, exc>>
    /\ UNCHANGED <<resolveVars, planVars, queryVars>>

\* mutant of CallRaise: the failure is also recorded in the transcript
CallRaiseRecorded ==
    /\ pc = "called"
    /\ pc' = "raised"
    /\ exc' = "ToolInvocationError"
    /\ messages' = Append(messages, ToolMessage(calls[Len(calls)].tool, <<"error">>))
    /\ UNCHANGED <<tool_plan, orig_plan, idx, tool_outputs, calls, returns, synth_calls>>
    /\ UNCHANGED <<resolveVars, planVars, queryVars>>

\* line 201: call_tool raises; nothing in execute_tool_chain or process_query catches
CallRaise ==
    /\ pc = "called"
    /\ pc' = "raised"
    /\ exc' = "ToolInvocationError"
    /\ UNCHANGED <<tool_plan, orig_plan, idx, tool_outputs, messages, calls, returns,
                   synth_calls>>
    /\ UNCHANGED <<resolveVars, planVars, queryVars>>

\* line 215: the loop is exhausted, messages is returned
ChainReturn ==
    /\ pc = "loop"
    /\ idx > Len(tool_plan)
    /\ pc' = "returned"
    /\ UNCHANGED <<tool_plan, orig_plan, idx, tool_outputs, messages, calls, returns,
                   synth_calls, exc>>
    /\ UNCHANGED <<resolveVars, planVars, queryVars>>

\* lines 247, 219-223: create() is called with the transcript; it raises, or it
\* returns a ChatCompletion, which the await expression rejects with TypeError
GenerateFinalResponse ==
    /\ pc = "returned"
    /\ synth_calls' = Append(synth_calls, messages)
    /\ pc' = "raised"
    /\ \E served \in BOOLEAN :
          exc' = IF served THEN "TypeError" ELSE "SynthesisError"
    /\ UNCHANGED <<tool_plan, orig_plan, idx, tool_outputs, messages, calls, returns>>
    /\ UNCHANGED <<resolveVars, planVars, queryVars>>

Next ==
    \/ StepCall
    \/ CallReturn
    \/ CallRaise
    \/ ChainReturn
    \/ GenerateFinalResponse

Spec == Init /\ [][Next]_vars

(***************************************************************************)
(* Claims about execute_tool_chain, checked under Spec.                    *)
(***************************************************************************)
ToolNames == {SearchTool, AnalyzeTool, EmailTool}

Max(S) == CHOOSE x \in S : \A y \in S : y <= x

\* the steps before step i of the plan as passed whose tool is T
PriorSteps(i, T) ==
    {j \in 1..(i - 1) : "tool" \in DOMAIN orig_plan[j] /\ orig_plan[j]["tool"] = T}

\* C1: the invocations issued through the session are the plan's steps in the
\* listed order, one at a time: an invocation is issued only when every earlier
\* one has returned and its output is stored in tool_outputs; when the chain
\* returns, every step has been invoked exactly once.
C1_InvocationsInPlanOrder ==
    [][ /\ (calls' # calls) =>
              /\ calls' = Append(calls, calls'[Len(calls')])
              /\ Len(calls') <= Len(orig_plan)
              /\ calls'[Len(calls')].tool = orig_plan[Len(calls')]["tool"]
              /\ Len(returns) = Len(calls)
              /\ (Len(calls) > 0 =>
                     /\ calls[Len(calls)].tool \in DOMAIN tool_outputs
                     /\ tool_outputs[calls[Len(calls)].tool] = returns[Len(returns)])
        /\ (pc' = "returned" => Len(calls') = Len(orig_plan)) ]_vars

C1_Witness ==
    /\ pc = "returned"
    /\ Len(calls) = 3
    /\ calls[1].tool # calls[2].tool
    /\ calls[2].tool # calls[3].tool

\* C3 (as claimed): a step in the name/arguments shape is executed like the
\* same step in the tool/arguments shape: the tool its "name" gives is invoked
\* and no KeyError arises.
C3_NameShapeExecuted ==
    /\ exc # "KeyError"
    /\ \A k \in 1..Len(calls) :
          "name" \in DOMAIN orig_plan[k] => calls[k].tool = orig_plan[k]["name"]

\* C4: when the invocation of step idx raises, the error leaves the chain:
\* step idx was issued once and no later step was, no tool message exists for
\* step idx or a later step, no synthesis request was or will be made, and
\* nothing more happens for the query.
C4_FailFast ==
    (pc = "raised" /\ exc = "ToolInvocationError") =>
        /\ Len(calls) = idx
        /\ Len(returns) = idx - 1
        /\ Len(messages) = idx
        /\ \A k \in 2..Len(messages) : messages[k].content = returns[k - 1]
        /\ synth_calls = <<>>
        /\ ~ENABLED Next

C4_Witness ==
    /\ pc = "raised"
    /\ exc = "ToolInvocationError"
    /\ idx = 2
    /\ Len(orig_plan) = 3

\* C5: an argument of step i whose value is the placeholder {{T}} reaches the
\* tool as the output of the latest step j < i whose tool is T, and as the
\* unchanged placeholder when there is no such step; never as the output of
\* step i or of a later step.
C5_ForwardOnlyLatest ==
    \A i \in 1..Len(calls) :
        \A key \in DOMAIN orig_plan[i]["arguments"] :
            \A T \in ToolNames :
                orig_plan[i]["arguments"][key] = StrVal(Placeholder(T)) =>
                    calls[i].arguments[key] =
                        IF PriorSteps(i, T) # {}
                        THEN StrVal(returns[Max(PriorSteps(i, T))])
                        ELSE StrVal(Placeholder(T))

\* step 3 refers to a tool that ran twice before it, with different outputs
C5_Witness ==
    /\ Len(calls) = 3
    /\ orig_plan[3]["arguments"] = [text |-> StrVal(Placeholder(SearchTool))]
    /\ PriorSteps(3, SearchTool) = {1, 2}
    /\ returns[1] # returns[2]
    /\ calls[3].arguments["text"] = StrVal(returns[2])

\* C7: the transcript is the user message with the query followed by one tool
\* message per completed invocation, in execution order, each carrying the
\* step's tool name as call identifier and the returned text as content; when
\* the chain returns it has one message more than the plan has steps.
C7_Transcript ==
    /\ Len(messages) = Len(returns) + 1
    /\ messages[1] = [role |-> "user", content |-> Query]
    /\ \A k \in 1..Len(returns) :
          messages[k + 1] = [role |-> "tool",
                             tool_call_id |-> orig_plan[k]["tool"],
                             content |-> returns[k]]
    /\ (pc = "returned" => Len(messages) = Len(orig_plan) + 1)

C7_Witness ==
    /\ pc = "returned"
    /\ Len(orig_plan) = 3
    /\ Len(messages) = 4
    /\ messages[2].content # messages[3].content

\* the token of a value of the shape {{<token>}}: what lies between the outer
\* brace pairs, with surrounding whitespace trimmed
ClaimedToken(v) == Strip(SubSeq(v, 3, Len(v) - 2), {" ", "\t"})

IsPlaceholderShaped(v) ==
    /\ Len(v) >= 4
    /\ SubSeq(v, 1, 2) = <<"{", "{">>
    /\ SubSeq(v, Len(v) - 1, Len(v)) = <<"}", "}">>

\* what step k's argument dict holds once step k has been resolved, from the
\* plan as passed and the outputs returned before step k
ExpectedArgs(k) ==
    LET a == orig_plan[k]["arguments"]
        T == orig_plan[k]["tool"]
        val(key) ==
            IF IsStr(a[key]) /\ IsPlaceholderShaped(a[key].v)
               /\ PriorSteps(k, ClaimedToken(a[key].v)) # {}
            THEN StrVal(returns[Max(PriorSteps(k, ClaimedToken(a[key].v)))])
            ELSE a[key]
        injected ==
            IF T = AnalyzeTool /\ "filename" \notin DOMAIN a THEN {"filename"}
            ELSE IF T = EmailTool /\ "attachment_path" \notin DOMAIN a
                 THEN {"attachment_path"}
                 ELSE {}
    IN  [key \in DOMAIN a \cup injected |->
            IF key \in DOMAIN a THEN val(key)
            ELSE IF key = "filename" THEN StrVal(MdFilename) ELSE StrVal(MdPath)]

\* C8 (as claimed): after execute_tool_chain has run, every step of the
\* caller's plan holds exactly the arguments it had before.
C8_PlanUnmodified == tool_plan = orig_plan

\* C8 (amended): resolving leaves tool_outputs alone (it holds exactly the
\* latest returned text of each invoked tool), but it rewrites the step's
\* argument dict in place: every step already invoked holds the resolved
\* arguments (outputs substituted for placeholders, injected filename or
\* attachment_path added), every step not yet reached is as it was passed.
C8_ResolveInPlace ==
    /\ \A k \in 1..Len(tool_plan) :
          IF k <= Len(calls)
          THEN /\ tool_plan[k]["arguments"] = ExpectedArgs(k)
               /\ tool_plan[k]["tool"] = orig_plan[k]["tool"]
          ELSE tool_plan[k] = orig_plan[k]
    /\ Len(tool_plan) = Len(orig_plan)
    /\ DOMAIN tool_outputs = {calls[j].tool : j \in 1..Len(returns)}
    /\ \A T \in DOMAIN tool_outputs :
          tool_outputs[T] = returns[Max({j \in 1..Len(returns) : calls[j].tool = T})]

\* a step whose placeholder was replaced and a step that received an injected key
C8_Witness ==
    /\ pc = "returned"
    /\ \E k \in 1..Len(tool_plan) :
          /\ DOMAIN tool_plan[k]["arguments"] = DOMAIN orig_plan[k]["arguments"]
          /\ tool_plan[k]["arguments"] # orig_plan[k]["arguments"]
    /\ \E k \in 1..Len(tool_plan) :
          DOMAIN tool_plan[k]["arguments"] # DOMAIN orig_plan[k]["arguments"]

(***************************************************************************)
(* resolve_tool_args on its own: SpecResolve draws the tool name, one      *)
(* argument value and the outputs, and applies the function once.          *)
(***************************************************************************)
ValChars == {"{", "}", " ", "\t", "A"}

ValStrings == UNION { [1..n -> ValChars] : n \in 0..MaxValLen }

OutputsSet == {EmptyDict, (<<"A">> :> <<"foo">>)}

InitResolve ==
    /\ r_pc = "ready"
    /\ r_name \in {SearchTool, AnalyzeTool}
    /\ \E s \in ValStrings : r_args = [x |-> StrVal(s), n |-> NumVal(s)]
    /\ r_args0 = r_args
    /\ r_outs \in OutputsSet
    /\ ChainOff
    /\ PlanOff
    /\ QueryOff

\* lines 116-129
ResolveCall ==
    /\ r_pc = "ready"
    /\ r_args' = ResolveToolArgs(r_name, r_args, r_outs, MdFilename, MdPath)
    /\ r_pc' = "done"
    /\ UNCHANGED <<r_name, r_args0, r_outs>>
    /\ UNCHANGED <<chainVars, planVars, queryVars>>

NextResolve == ResolveCall

SpecResolve == InitResolve /\ [][NextResolve]_vars

\* C10 (as claimed): a value that is exactly {{<token>}} is replaced by
\* outputs[<token>] (whitespace inside the braces trimmed) when <token> is a key
\* of outputs, is left as it is otherwise, and every other value is untouched.
C10_ResolveAsClaimed ==
    r_pc = "done" =>
        \A key \in DOMAIN r_args0 :
            r_args[key] =
                IF /\ IsStr(r_args0[key])
                   /\ IsPlaceholderShaped(r_args0[key].v)
                   /\ ClaimedToken(r_args0[key].v) \in DOMAIN r_outs
                THEN StrVal(r_outs[ClaimedToken(r_args0[key].v)])
                ELSE r_args0[key]

\* what is left of v when every leading and trailing "{", "}" and space is removed
CoreOf(v) ==
    LET keep == {i \in 1..Len(v) : v[i] \notin {"{", "}", " "}}
    IN  IF keep = {}
        THEN <<>>
        ELSE SubSeq(v, CHOOSE i \in keep : \A j \in keep : i <= j, Max(keep))

\* C10 (amended): a string value that starts with {{ and ends with }} is
\* replaced by outputs[k], where k is the value with every leading and trailing
\* "{", "}" and space character removed, when k is a key of outputs; it is left
\* as it is otherwise, and every other value is untouched; neither case raises.
C10_ResolveByStrip ==
    r_pc = "done" =>
        /\ DOMAIN r_args0 \subseteq DOMAIN r_args
        /\ \A key \in DOMAIN r_args0 :
              r_args[key] =
                  IF /\ IsStr(r_args0[key])
                     /\ IsPlaceholderShaped(r_args0[key].v)
                     /\ CoreOf(r_args0[key].v) \in DOMAIN r_outs
                  THEN StrVal(r_outs[CoreOf(r_args0[key].v)])
                  ELSE r_args0[key]

\* {{{A}} resolved against {"A": "foo"}
C10_Witness ==
    /\ r_pc = "done"
    /\ r_args0["x"] = StrVal(<<"{", "{", "{", "A", "}", "}">>)
    /\ r_outs = (<<"A">> :> <<"foo">>)
    /\ r_args["x"] = StrVal(<<"foo">>)
    /\ r_args["n"] = r_args0["n"]

(***************************************************************************)
(* plan_tool_usage from the model's response on (lines 169-182).  The      *)
(* response text is a sequence of symbols: a code fence (three backticks), *)
(* written "<fence>" below, the word json, a                               *)
(* backslash, the letter s, a whitespace character, and three JSON texts   *)
(* (an array of steps, an object, a scalar).                               *)
(***************************************************************************)
FENCE == "<fence>"
JSONWORD == "json"
BACKSLASH == "\\"
LETTER_S == "s"
WS == "\n"
ARR == "[{\"tool\": \"search_google_news\", \"arguments\": {}}]"
OBJ == "{\"tool\": \"search_google_news\"}"
SCALAR == "true"

ContentChars == {FENCE, JSONWORD, BACKSLASH, LETTER_S, WS, ARR, OBJ, SCALAR}

ContentSet == UNION { [1..n -> ContentChars] : n \in 0..MaxContent }

\* the number of consecutive letters s of c from position p on
SRun(c, p) ==
    Max({n \in 0..(Len(c) + 1 - p) : \A t \in p..(p + n - 1) : c[t] = LETTER_S}
        \cup {0})

\* the rest of the pattern after the group: \\ s* <fence>
TailMatches(c, e) ==
    /\ e + 1 <= Len(c)
    /\ c[e + 1] = BACKSLASH
    /\ LET m == SRun(c, e + 2)
       IN  /\ e + 2 + m <= Len(c)
           /\ c[e + 2 + m] = FENCE

\* where the optional (?:json) leaves the match that starts at fence i
AfterWord(c, i) == IF i + 1 <= Len(c) /\ c[i + 1] = JSONWORD THEN i + 2 ELSE i + 1

\* the matches of  <fence>(?:json)?\\s*([\s\S]+?)\\s*<fence>  that start at position i:
\* <<n, e>> with n letters taken by the first s* and the group ending at e
MatchesAt(c, i) ==
    IF /\ c[i] = FENCE
       /\ AfterWord(c, i) <= Len(c)
       /\ c[AfterWord(c, i)] = BACKSLASH
    THEN {ne \in (0..SRun(c, AfterWord(c, i) + 1)) \X (1..Len(c)) :
             /\ ne[2] >= AfterWord(c, i) + 1 + ne[1]
             /\ TailMatches(c, ne[2])}
    ELSE {}

\* re.search: the leftmost match; s* greedy, the group lazy; its group 1
RegexSearch(c) ==
    LET starts == {i \in 1..Len(c) : MatchesAt(c, i) # {}}
    IN  IF starts = {}
        THEN [matched |-> FALSE, group |-> <<>>]
        ELSE LET i == CHOOSE x \in starts : \A y \in starts : x <= y
                 ms == MatchesAt(c, i)
                 n == Max({ne[1] : ne \in ms})
                 e == CHOOSE x \in {ne[2] : ne \in {m \in ms : m[1] = n}} :
                          \A y \in {ne[2] : ne \in {m \in ms : m[1] = n}} : x <= y
             IN  [matched |-> TRUE,
                  group |-> SubSeq(c, AfterWord(c, i) + 1 + n, e)]

\* the value a JSON text decodes to
Decode(tok) ==
    IF tok = ARR
    THEN [kind |-> "list",
          value |-> <<[tool |-> SearchTool, arguments |-> EmptyDict]>>]
    ELSE IF tok = OBJ
         THEN [kind |-> "dict", value |-> <<"tool">>]
         ELSE [kind |-> "bool", value |-> <<"true">>]

\* json.loads: one JSON text, whitespace allowed around it; anything else raises
JsonLoads(text) ==
    LET t == Strip(text, {WS})
    IN  IF Len(t) = 1 /\ t[1] \in {ARR, OBJ, SCALAR}
        THEN [ok |-> TRUE, decoded |-> Decode(t[1])]
        ELSE [ok |-> FALSE, decoded |-> [kind |-> "none", value |-> <<>>]]

\* the empty list
EmptyPlan == [kind |-> "list", value |-> <<>>]

\* mutant of PlanOrEmpty: the decoded value is returned whatever its type
PlanOrEmptyUnchecked(decoded) == decoded

\* plan if isinstance(plan, list) else []
PlanOrEmpty(decoded) == IF decoded.kind = "list" THEN decoded ELSE EmptyPlan

\* lines 169-182
PlanFromContent(raw) ==
    LET stripped == Strip(raw, {WS})
        match == RegexSearch(stripped)
        json_text == IF match.matched THEN match.group ELSE stripped
        loaded == JsonLoads(json_text)
    IN  IF loaded.ok THEN PlanOrEmpty(loaded.decoded) ELSE EmptyPlan

InitPlan ==
    /\ p_pc = "response"
    /\ content \in ContentSet
    /\ p_result = NoPlan
    /\ p_exc = ""
    /\ ChainOff
    /\ ResolveOff
    /\ QueryOff

PlanParse ==
    /\ p_pc = "response"
    /\ p_result' = PlanFromContent(content)
    /\ p_pc' = "returned"
    /\ UNCHANGED <<content, p_exc>>
    /\ UNCHANGED <<chainVars, resolveVars, queryVars>>

NextPlan == PlanParse

SpecPlan == InitPlan /\ [][NextPlan]_vars

HasFence(c) == \E i \in 1..Len(c) : c[i] = FENCE

\* c is tok with nothing but whitespace around it
IsJustToken(c, tok) ==
    \E i \in 1..Len(c) :
        /\ c[i] = tok
        /\ \A j \in 1..Len(c) : j # i => c[j] = WS

\* c holds exactly one fenced block, with or without the word json, whose content is the array
\* text with optional whitespace around it; prose may surround the block
IsFencedArray(c) ==
    \E i, j \in 1..Len(c) :
        /\ i < j
        /\ c[i] = FENCE
        /\ c[j] = FENCE
        /\ \A k \in 1..Len(c) : c[k] = FENCE => k \in {i, j}
        /\ \/ IsJustToken(SubSeq(c, i + 1, j - 1), ARR)
           \/ /\ c[i + 1] = JSONWORD
              /\ IsJustToken(SubSeq(c, i + 2, j - 1), ARR)

\* C6 (as claimed): for a response in which a valid JSON array is wrapped in a
\* fenced code block, plan_tool_usage returns that parsed array as the plan.
C6_FencedArrayReturned ==
    (p_pc = "returned" /\ IsFencedArray(content)) =>
        p_result = [kind |-> "list",
                    value |-> <<[tool |-> SearchTool, arguments |-> EmptyDict]>>]

\* C9: for a response without a code fence plan_tool_usage does not raise; it
\* returns the decoded value when the text is valid JSON that decodes to a
\* list, and an empty plan in every other case.
C9_NoFence ==
    (p_pc = "returned" /\ ~HasFence(content)) =>
        /\ p_exc = ""
        /\ p_result = IF IsJustToken(content, ARR)
                      THEN [kind |-> "list",
                            value |-> <<[tool |-> SearchTool, arguments |-> EmptyDict]>>]
                      ELSE [kind |-> "list", value |-> <<>>]

\* a bare array between whitespace is returned
C9_Witness ==
    /\ p_pc = "returned"
    /\ content = <<WS, ARR, WS>>
    /\ p_result.kind = "list"
    /\ Len(p_result.value) = 1

(***************************************************************************)
(* chat_loop and process_query (lines 232-270).                            *)
(***************************************************************************)
QChars == {"a", "?", " "}

Lines ==
    UNION { [1..n -> QChars] : n \in 0..MaxQueryLen }
        \cup {<<"quit">>, <<"QUIT">>, <<" ", "quit", " ">>}

Lower(line) == [k \in 1..Len(line) |-> IF line[k] = "QUIT" THEN "quit" ELSE line[k]]

CompletionText == <<"final answer">>

\* def clean_filename(text): the parameters the function declares
CleanFilenameParams == 1

\* self.clean_filename(query): the bound call passes self and query
CleanFilenameArgsPassed == 2

\* self.client is the synchronous OpenAI client: create() returns a
\* ChatCompletion, which is not awaitable
CreateResultAwaitable == FALSE

\* process_query, from its call to its return or to the exception leaving it
ProcessQueryOutcome(q, services_ok) ==
    IF CleanFilenameArgsPassed # CleanFilenameParams
    THEN [raised |-> TRUE, text |-> <<"TypeError: clean_filename() takes 1 positional argument but 2 were given">>]
    ELSE IF ~services_ok
         THEN [raised |-> TRUE, text |-> <<"service error">>]
         ELSE IF ~CreateResultAwaitable
              THEN [raised |-> TRUE, text |-> <<"TypeError: object ChatCompletion can't be used in 'await' expression">>]
              ELSE [raised |-> FALSE, text |-> CompletionText]

InitQuery ==
    /\ q_pc = "input"
    /\ query = <<>>
    /\ q_services = FALSE
    /\ q_final = NoAnswer
    /\ terminal = <<>>
    /\ ChainOff
    /\ ResolveOff
    /\ PlanOff

\* lines 261-263: read a line; quit ends the loop
ReadQuery ==
    /\ q_pc = "input"
    /\ Len(terminal) < MaxTurns
    /\ \E line \in Lines :
          /\ query' = Strip(line, {" "})
          /\ q_pc' = IF Lower(Strip(line, {" "})) = <<"quit">> THEN "stopped" ELSE "process"
    /\ q_services' \in BOOLEAN
    /\ q_final' = NoAnswer
    /\ UNCHANGED terminal
    /\ UNCHANGED <<chainVars, resolveVars, planVars>>

\* lines 266-270: process the query; print the answer, or the error caught
ProcessQuery ==
    /\ q_pc = "process"
    /\ LET out == ProcessQueryOutcome(query, q_services)
       IN  IF out.raised
           THEN /\ terminal' = Append(terminal, [kind |-> "error", text |-> out.text])
                /\ q_final' = NoAnswer
           ELSE /\ terminal' = Append(terminal, [kind |-> "answer", text |-> out.text])
                /\ q_final' = out.text
    /\ q_pc' = "input"
    /\ UNCHANGED <<query, q_services>>
    /\ UNCHANGED <<chainVars, resolveVars, planVars>>

NextQuery ==
    \/ ReadQuery
    \/ ProcessQuery

SpecQuery == InitQuery /\ [][NextQuery]_vars

\* C2 (as claimed): when planning, every tool invocation and the synthesis all
\* succeed, processing a query ends with the completion's text, unmodified, as
\* the final answer, and not with an error.
C2_QueryCompletes ==
    (q_pc = "input" /\ terminal # <<>> /\ q_services) =>
        /\ terminal[Len(terminal)] = [kind |-> "answer", text |-> CompletionText]
        /\ q_final = CompletionText

====
